---- MODULE Spec2Model ----
(***************************************************************************)
(* The update-bill-rate function of the Unanet PMO dashboard refresh:      *)
(* planMatrix-billRate-Update/function_app.py.  The handler reads the      *)
(* planned matrix and the labor category sheet from blob storage,          *)
(* normalises both, collapses the sheet to the highest rate per key,       *)
(* left-merges it onto the planned matrix, substitutes the rate, checks    *)
(* the row count and writes the planned matrix back.                       *)
(*                                                                         *)
(* A CSV cell is a text; the empty text is the empty cell, which read_csv  *)
(* loads as a null.  A rate cell of the sheet is a sequence of characters, *)
(* because the code transforms it character by character.  Amounts are in  *)
(* hundredths (cents), dates are yyyymmdd numbers.                         *)
(***************************************************************************)
EXTENDS Integers, Sequences, FiniteSets, TLC

VARIABLES
    planned_matrix_blob,     \* rows of planned_matrix.csv in blob storage
    labor_category_blob,     \* rows of Labor Category.csv in blob storage
    planned_matrix_df,       \* the handler's planned_matrix_df when it returned
    labor_category_df,       \* the handler's labor_category_df when it returned
    updated_planned_matrix,  \* the handler's updated_planned_matrix when it returned
    response,                \* the HttpResponse of the last invocation
    uploaded                 \* whether the last invocation called write_csv_to_blob

\* The fetch functions: invoices-update/function_app.py (unanetFetchInvoices)
\* and planMatrix/function_app.py (unanet-fetch-planned-time).
VARIABLES
    request,                 \* the route of the fetch request being served
    upstream,                \* the IDs that exist at Unanet
    fetch_pc,                \* where the fetch handler stands
    probes,                  \* the GET requests of the loop so far, with their outcomes
    fetch_response,          \* the HttpResponse of the fetch handler
    fetch_blob,              \* the data of the blob the fetch handler writes
    upload_calls,            \* the data of each call of upload_to_azure_blob
    invoice_id,              \* fetch_all_invoices: invoice_id
    invoices,                \* fetch_all_invoices: invoices
    consecutive_misses,      \* fetch_all_invoices: consecutive_misses
    max_consecutive_misses,  \* fetch_all_invoices: max_consecutive_misses
    project_id,              \* unanet_fetch_planned_time: project_id
    planned_time_data,       \* unanet_fetch_planned_time: planned_time_data
    failure_count,           \* unanet_fetch_planned_time: failure_count
    max_failures             \* unanet_fetch_planned_time: max_failures

billVars == <<planned_matrix_blob, labor_category_blob, planned_matrix_df,
              labor_category_df, updated_planned_matrix, response, uploaded>>

fetchVars == <<request, upstream, fetch_pc, probes, fetch_response, fetch_blob,
               upload_calls, invoice_id, invoices, consecutive_misses,
               max_consecutive_misses, project_id, planned_time_data, failure_count,
               max_failures>>

vars == <<billVars, fetchVars>>

\* No fetch request is being served.
FetchIdle ==
    /\ request = "none"
    /\ upstream = {}
    /\ fetch_pc = "idle"
    /\ probes = <<>>
    /\ fetch_response = [status_code |-> 0, body |-> "none"]
    /\ fetch_blob = <<>>
    /\ upload_calls = <<>>
    /\ invoice_id = 0
    /\ invoices = <<>>
    /\ consecutive_misses = 0
    /\ max_consecutive_misses = 0
    /\ project_id = 0
    /\ planned_time_data = <<>>
    /\ failure_count = 0
    /\ max_failures = 0

\* ------------------------------------------------------------------ values

\* The empty CSV cell.
NULL == ""

\* The empty rate cell.
NULLRATE == <<>>

\* pd.NA of an Int64 column.
NA == -1

\* NaT of a datetime64 column.
NaT == -1

\* NaN of a float64 column.
NaN == -1

\* The texts pandas reads as integers, with their values.
IntegerText == ("1" :> 1) @@ ("2" :> 2) @@ ("10" :> 10) @@ ("20" :> 20)

\* The texts pd.to_datetime parses, with the dates they denote.
DateText ==
    ("2024-01-01" :> 20240101) @@ ("2024-02-01" :> 20240201) @@
    ("2024-06-30" :> 20240630) @@ ("6/30/2024" :> 20240630) @@
    ("2024-12-31" :> 20241231)

\* The form to_csv writes a date in.
IsoText == {"2024-01-01", "2024-02-01", "2024-06-30", "2024-12-31"}

\* The order groupby sorts the labor category names in.
NameOrder == ("Analyst" :> 1) @@ ("Engineer" :> 2)

Digit ==
    ("0" :> 0) @@ ("1" :> 1) @@ ("2" :> 2) @@ ("3" :> 3) @@ ("4" :> 4) @@
    ("5" :> 5) @@ ("6" :> 6) @@ ("7" :> 7) @@ ("8" :> 8) @@ ("9" :> 9)

\* ------------------------------------------------------------- conversions

\* .astype("Int64") of one cell: raises on a text that is no integer.
Int64Raises(c) == c # NULL /\ c \notin DOMAIN IntegerText

astype_Int64(c) == IF c = NULL THEN NA ELSE IntegerText[c]

\* pd.to_datetime of one cell (errors="raise"): raises on an unparseable text.
DatetimeRaises(c) == c # NULL /\ c \notin DOMAIN DateText

to_datetime(c) == IF c = NULL THEN NaT ELSE DateText[c]

\* .str.replace(ch, "", regex=False) of one cell.
str_replace(s, ch) == SelectSeq(s, LAMBDA c : c # ch)

IsDigits(s) == s # <<>> /\ \A i \in 1..Len(s) : s[i] \in DOMAIN Digit

RECURSIVE DigitsValue(_)
DigitsValue(s) ==
    IF s = <<>> THEN 0
    ELSE 10 * DigitsValue(SubSeq(s, 1, Len(s) - 1)) + Digit[s[Len(s)]]

\* The place of the decimal point, 0 when there is none.
PointAt(s) ==
    IF \E i \in 1..Len(s) : s[i] = "."
    THEN CHOOSE i \in 1..Len(s) : s[i] = "." /\ \A j \in 1..(i - 1) : s[j] # "."
    ELSE 0

IntegerPart(s) == IF PointAt(s) = 0 THEN s ELSE SubSeq(s, 1, PointAt(s) - 1)

FractionPart(s) == IF PointAt(s) = 0 THEN <<>> ELSE SubSeq(s, PointAt(s) + 1, Len(s))

IsNanText(s) == s = <<"n", "a", "n">>

\* A decimal literal float() reads: digits, with at most two decimals here.
IsDecimal(s) ==
    /\ IsDigits(IntegerPart(s))
    /\ \/ PointAt(s) = 0
       \/ FractionPart(s) = <<>>
       \/ IsDigits(FractionPart(s)) /\ Len(FractionPart(s)) <= 2

\* .astype(float) of one text: ValueError on anything float() cannot read.
FloatRaises(s) == ~IsDecimal(s) /\ ~IsNanText(s)

astype_float(s) ==
    IF IsNanText(s) THEN NaN
    ELSE 100 * DigitsValue(IntegerPart(s))
         + (IF Len(FractionPart(s)) = 1 THEN 10 * DigitsValue(FractionPart(s))
            ELSE DigitsValue(FractionPart(s)))

\* .astype(str) of one cell: a null becomes the text nan.
astype_str(c) == IF c = NULLRATE THEN <<"n", "a", "n">> ELSE c

\* The currency text with "$" and "," removed.
StripCurrency(c) == str_replace(str_replace(astype_str(c), "$"), ",")

\* ------------------------------------------------------------------ tables

KeyOf(r) == <<r.person_key, r.project_key, r.laborCategory_name, r.beginDate, r.endDate>>

\* dropna(subset=[the five key columns, new_billRate]).
HasNull(r) ==
    \/ r.person_key = NULL
    \/ r.project_key = NULL
    \/ r.laborCategory_name = NULL
    \/ r.beginDate = NULL
    \/ r.endDate = NULL
    \/ r.new_billRate = NULLRATE

\* The dropna left out: every row of the sheet goes on.
dropna_nothing(df) == df

dropna(df) == SelectSeq(df, LAMBDA r : ~HasNull(r))

\* Whether one of the conversions of the labor category sheet raises.
LaborRaises(df) ==
    \E i \in 1..Len(df) :
        \/ Int64Raises(df[i].person_key)
        \/ Int64Raises(df[i].project_key)
        \/ FloatRaises(StripCurrency(df[i].new_billRate))
        \/ DatetimeRaises(df[i].beginDate)
        \/ DatetimeRaises(df[i].endDate)

\* Whether one of the conversions of the planned matrix raises.
PlannedRaises(df) ==
    \E i \in 1..Len(df) :
        \/ Int64Raises(df[i].person_key)
        \/ Int64Raises(df[i].project_key)
        \/ DatetimeRaises(df[i].beginDate)
        \/ DatetimeRaises(df[i].endDate)

\* One row of the labor category sheet with its columns converted.
ConvertLaborRow(r) ==
    [person_key |-> astype_Int64(r.person_key),
     project_key |-> astype_Int64(r.project_key),
     laborCategory_name |-> r.laborCategory_name,
     beginDate |-> to_datetime(r.beginDate),
     endDate |-> to_datetime(r.endDate),
     new_billRate |-> astype_float(StripCurrency(r.new_billRate))]

ConvertLabor(df) == [i \in 1..Len(df) |-> ConvertLaborRow(df[i])]

\* One row of the planned matrix with its columns converted.
ConvertPlannedRow(r) ==
    [person_key |-> astype_Int64(r.person_key),
     project_key |-> astype_Int64(r.project_key),
     laborCategory_name |-> r.laborCategory_name,
     beginDate |-> to_datetime(r.beginDate),
     endDate |-> to_datetime(r.endDate),
     billRate |-> r.billRate,
     passthrough |-> r.passthrough]

ConvertPlanned(df) == [i \in 1..Len(df) |-> ConvertPlannedRow(df[i])]

\* ----------------------------------------------------------------- groupby

\* groupby(dropna=True) leaves out a key with a null in it.
KeyHasNull(k) ==
    k[1] = NA \/ k[2] = NA \/ k[3] = NULL \/ k[4] = NaT \/ k[5] = NaT

\* The sort order of the group keys (sort=True).
KeyLess(a, b) ==
    \/ a[1] < b[1]
    \/ a[1] = b[1] /\ a[2] < b[2]
    \/ a[1] = b[1] /\ a[2] = b[2] /\ NameOrder[a[3]] < NameOrder[b[3]]
    \/ a[1] = b[1] /\ a[2] = b[2] /\ a[3] = b[3] /\ a[4] < b[4]
    \/ a[1] = b[1] /\ a[2] = b[2] /\ a[3] = b[3] /\ a[4] = b[4] /\ a[5] < b[5]

RECURSIVE SortedKeys(_)
SortedKeys(S) ==
    IF S = {} THEN <<>>
    ELSE LET least == CHOOSE k \in S : \A o \in S \ {k} : KeyLess(k, o)
         IN <<least>> \o SortedKeys(S \ {least})

GroupKeys(df) == {KeyOf(df[i]) : i \in {j \in 1..Len(df) : ~KeyHasNull(KeyOf(df[j]))}}

\* The rates of the group of key k.
GroupRates(df, k) == {df[i].new_billRate : i \in {j \in 1..Len(df) : KeyOf(df[j]) = k}}

\* The lowest rate kept in place of the highest.
agg_min(rates) ==
    IF rates \ {NaN} = {} THEN NaN
    ELSE CHOOSE m \in rates \ {NaN} : \A r \in rates \ {NaN} : m <= r

\* .agg("max"): the highest rate that is not NaN, NaN when there is none.
agg_max(rates) ==
    IF rates \ {NaN} = {} THEN NaN
    ELSE CHOOSE m \in rates \ {NaN} : \A r \in rates \ {NaN} : r <= m

\* The collapse left out: every row of the sheet stays a row of its own.
groupby_nothing(df) == SelectSeq(df, LAMBDA r : ~KeyHasNull(KeyOf(r)))

\* groupby(the five key columns, as_index=False).agg({"new_billRate": "max"}).
groupby_max(df) ==
    LET keys == SortedKeys(GroupKeys(df))
    IN [i \in 1..Len(keys) |->
           [person_key |-> keys[i][1],
            project_key |-> keys[i][2],
            laborCategory_name |-> keys[i][3],
            beginDate |-> keys[i][4],
            endDate |-> keys[i][5],
            new_billRate |-> agg_max(GroupRates(df, keys[i]))]]

\* ------------------------------------------------------------------- merge

\* The end date left out of the merge columns.
MatchesWithoutEndDate(l, right) ==
    SelectSeq(right, LAMBDA r : SubSeq(KeyOf(r), 1, 4) = SubSeq(KeyOf(l), 1, 4))

\* The rows of the right table whose key is that of the left row, in right order.
Matches(l, right) == SelectSeq(right, LAMBDA r : KeyOf(r) = KeyOf(l))

\* A left row with the new_billRate column attached.
Attach(l, rate) ==
    [person_key |-> l.person_key,
     project_key |-> l.project_key,
     laborCategory_name |-> l.laborCategory_name,
     beginDate |-> l.beginDate,
     endDate |-> l.endDate,
     billRate |-> l.billRate,
     passthrough |-> l.passthrough,
     new_billRate |-> rate]

\* The rows a left merge makes of one left row: one per match, one with NaN when
\* nothing matches.
MergeRow(l, right) ==
    LET m == Matches(l, right)
    IN IF m = <<>> THEN <<Attach(l, NaN)>>
       ELSE [i \in 1..Len(m) |-> Attach(l, m[i].new_billRate)]

\* how="inner": a left row that matches nothing is left out.
RECURSIVE merge_inner(_, _)
merge_inner(left, right) ==
    IF left = <<>> THEN <<>>
    ELSE (IF Matches(Head(left), right) = <<>> THEN <<>> ELSE MergeRow(Head(left), right))
         \o merge_inner(Tail(left), right)

\* A left merge put together from the matched rows followed by the unmatched.
merge_matched_first(left, right) ==
    merge_inner(left, right)
        \o [i \in 1..Len(SelectSeq(left, LAMBDA l : Matches(l, right) = <<>>)) |->
               Attach(SelectSeq(left, LAMBDA l : Matches(l, right) = <<>>)[i], NaN)]

\* planned_matrix_df.merge(labor_category_df, on=the five key columns, how="left").
RECURSIVE merge_left(_, _)
merge_left(left, right) ==
    IF left = <<>> THEN <<>>
    ELSE MergeRow(Head(left), right) \o merge_left(Tail(left), right)

\* A plain assignment of the attached column: a null overwrites too.
assign_new(new, old) == new

\* The substitution as the comment of line 121 words it: a zero is left out.
combine_first_nonzero(new, old) == IF new # NaN /\ new # 0 THEN new ELSE old

\* The two columns added, a null counting as zero.
add_fill(new, old) ==
    IF new = NaN THEN old ELSE IF old = NaN THEN new ELSE new + old

\* new_billRate.combine_first(billRate) of one row.
combine_first(new, old) == IF new # NaN THEN new ELSE old

\* The billRate assignment and the drop of the helper column.
UpdateRow(r) ==
    [person_key |-> r.person_key,
     project_key |-> r.project_key,
     laborCategory_name |-> r.laborCategory_name,
     beginDate |-> r.beginDate,
     endDate |-> r.endDate,
     billRate |-> combine_first(r.new_billRate, r.billRate),
     passthrough |-> r.passthrough]

UpdateBillRate(merged) == [i \in 1..Len(merged) |-> UpdateRow(merged[i])]

\* ------------------------------------------------------------ blob storage

\* to_csv of an Int64 cell.
IntegerToText(n) ==
    IF n = NA THEN NULL ELSE CHOOSE t \in DOMAIN IntegerText : IntegerText[t] = n

\* to_csv of a datetime64 cell.
DateToText(d) == IF d = NaT THEN NULL ELSE CHOOSE t \in IsoText : DateText[t] = d

\* dataframe.to_csv(index=False): the rows upload_blob stores.
to_csv(df) ==
    [i \in 1..Len(df) |->
        [person_key |-> IntegerToText(df[i].person_key),
         project_key |-> IntegerToText(df[i].project_key),
         laborCategory_name |-> df[i].laborCategory_name,
         beginDate |-> DateToText(df[i].beginDate),
         endDate |-> DateToText(df[i].endDate),
         billRate |-> df[i].billRate,
         passthrough |-> df[i].passthrough]]

\* --------------------------------------------------------------- responses

NoResponse == [status_code |-> 0, body |-> "none", Original |-> 0, Updated |-> 0]

\* Line 139.
UpdatedResponse ==
    [status_code |-> 200, body |-> "CSV file updated and uploaded successfully.",
     Original |-> 0, Updated |-> 0]

\* Line 133.
MismatchResponse(original_row_count, final_row_count) ==
    [status_code |-> 500, body |-> "Row count mismatch",
     Original |-> original_row_count, Updated |-> final_row_count]

\* Line 143.
ErrorResponse ==
    [status_code |-> 500, body |-> "Error processing request", Original |-> 0, Updated |-> 0]

\* Only a lost row counted as a mismatch.
RowCountShrunk(final_row_count, original_row_count) ==
    final_row_count < original_row_count

\* The condition of line 131.
RowCountMismatch(final_row_count, original_row_count) ==
    final_row_count # original_row_count

\* Lines 127 to 139: the row count check, the write and the response.  The
\* result is what the blob holds afterwards, the response, and whether
\* write_csv_to_blob was called.
CheckAndWrite(planned, updated, blob) ==
    IF RowCountMismatch(Len(updated), Len(planned))
    THEN [blob |-> blob,
          response |-> MismatchResponse(Len(planned), Len(updated)),
          uploaded |-> FALSE]
    ELSE [blob |-> to_csv(updated), response |-> UpdatedResponse, uploaded |-> TRUE]

\* ----------------------------------------------------------------- handler

\* An exception on the way (lines 141 to 143): nothing is written.
Abort ==
    /\ response' = ErrorResponse
    /\ uploaded' = FALSE
    /\ planned_matrix_df' = <<>>
    /\ labor_category_df' = <<>>
    /\ updated_planned_matrix' = <<>>
    /\ UNCHANGED <<planned_matrix_blob, labor_category_blob>>
    /\ UNCHANGED fetchVars

\* The blob service fails in read_csv_from_blob or in write_csv_to_blob.
StorageFailure == Abort

\* update_bill_rate with the blob service answering.
UpdateRun ==
    LET kept == dropna(labor_category_blob)
    IN IF LaborRaises(kept) \/ PlannedRaises(planned_matrix_blob)
       THEN Abort
       ELSE LET planned == ConvertPlanned(planned_matrix_blob)
                labor == groupby_max(ConvertLabor(kept))
                updated == UpdateBillRate(merge_left(planned, labor))
                end == CheckAndWrite(planned, updated, planned_matrix_blob)
            IN /\ planned_matrix_df' = planned
               /\ labor_category_df' = labor
               /\ updated_planned_matrix' = updated
               /\ planned_matrix_blob' = end.blob
               /\ response' = end.response
               /\ uploaded' = end.uploaded
               /\ UNCHANGED labor_category_blob
               /\ UNCHANGED fetchVars

update_bill_rate == StorageFailure \/ UpdateRun

\* ------------------------------------------------------------------ inputs

\* The longest tables of the rate family of inputs.
MaxPlanned == 2

MaxLabor == 2

\* The longest tables of the key family and of the malformed family of inputs.
MaxKeyPlanned == 1

MaxKeyLabor == 2

SeqsUpTo(S, n) == UNION {[1..k -> S] : k \in 0..n}

PlannedRow(k, rate, p) ==
    [person_key |-> k[1], project_key |-> k[2], laborCategory_name |-> k[3],
     beginDate |-> k[4], endDate |-> k[5], billRate |-> rate, passthrough |-> p]

LaborRow(k, rate) ==
    [person_key |-> k[1], project_key |-> k[2], laborCategory_name |-> k[3],
     beginDate |-> k[4], endDate |-> k[5], new_billRate |-> rate]

K0 == <<"1", "10", "Engineer", "2024-01-01", "2024-06-30">>

OtherValue == <<"2", "20", "Analyst", "2024-02-01", "2024-12-31">>

\* K0 with another value in field f.
DifferIn(f) == [K0 EXCEPT ![f] = OtherValue[f]]

\* K0 with field f empty.
NullIn(f) == [K0 EXCEPT ![f] = NULL]

\* K0 with its end date written the other way.
K0Slashed == [K0 EXCEPT ![5] = "6/30/2024"]

RateTexts ==
    {<<"0">>,
     <<"$", "1", "0", "0", ".", "0", "0">>,
     <<"$", "1", "5", "0">>,
     <<"$", "1", ",", "2", "5", "0", ".", "0", "0">>}

\* The rate family: duplicate keys, several rates on one key, a zero rate, an
\* empty rate, an empty billRate.
RatePlannedRows ==
    {PlannedRow(K0, 10000, "a"), PlannedRow(K0, 20000, "b"),
     PlannedRow(DifferIn(1), 10000, "a"), PlannedRow(K0, NaN, "c")}

RateLaborRows ==
    {LaborRow(K0, t) : t \in RateTexts \cup {NULLRATE}}
        \cup {LaborRow(DifferIn(1), <<"$", "1", "5", "0">>)}

\* The key family: keys that differ in one field, keys with one field empty.
KeyPlannedRows ==
    {PlannedRow(K0, 10000, "a"), PlannedRow(NullIn(1), 10000, "a")}
        \cup {PlannedRow(DifferIn(f), 10000, "a") : f \in 1..5}

KeyLaborRows ==
    {LaborRow(K0, <<"$", "1", "5", "0">>),
     LaborRow(K0Slashed, <<"$", "1", "2", "5", ".", "0", "0">>)}
        \cup {LaborRow(NullIn(f), <<"$", "1", "5", "0">>) : f \in 1..5}

\* The malformed family: cells the conversions cannot read.
BadPerson == [K0 EXCEPT ![1] = "abc"]

BadEndDate == [K0 EXCEPT ![5] = "garbage"]

MalformedPlannedRows ==
    {PlannedRow(K0, 10000, "a"), PlannedRow(BadPerson, 10000, "a"),
     PlannedRow(BadEndDate, 10000, "a")}

MalformedLaborRows ==
    {LaborRow(K0, <<"$", "1", "5", "0">>), LaborRow(K0, <<"T", "B", "D">>),
     LaborRow(BadPerson, <<"$", "1", "5", "0">>),
     LaborRow(BadEndDate, <<"$", "1", "5", "0">>)}

InputFamilies ==
    {[planned |-> SeqsUpTo(RatePlannedRows, MaxPlanned),
      labor |-> SeqsUpTo(RateLaborRows, MaxLabor)],
     [planned |-> SeqsUpTo(KeyPlannedRows, MaxKeyPlanned),
      labor |-> SeqsUpTo(KeyLaborRows, MaxKeyLabor)],
     [planned |-> SeqsUpTo(MalformedPlannedRows, MaxKeyPlanned),
      labor |-> SeqsUpTo(MalformedLaborRows, MaxKeyLabor)]}

\* ----------------------------------------------------------- specification

Init ==
    /\ \E family \in InputFamilies :
          /\ planned_matrix_blob \in family.planned
          /\ labor_category_blob \in family.labor
    /\ planned_matrix_df = <<>>
    /\ labor_category_df = <<>>
    /\ updated_planned_matrix = <<>>
    /\ response = NoResponse
    /\ uploaded = FALSE
    /\ FetchIdle

Next == update_bill_rate

Spec == Init /\ [][Next]_vars

\* ------------------------------------------------ the row count check alone

\* The longest tables of the row count check taken alone.
MaxChecked == 2

\* Lines 127 to 139 for any pair of tables that reaches them.
row_count_check ==
    /\ response = NoResponse
    /\ LET end == CheckAndWrite(planned_matrix_df, updated_planned_matrix,
                                planned_matrix_blob)
       IN /\ planned_matrix_blob' = end.blob
          /\ response' = end.response
          /\ uploaded' = end.uploaded
    /\ UNCHANGED <<labor_category_blob, planned_matrix_df, labor_category_df,
                   updated_planned_matrix>>
    /\ UNCHANGED fetchVars

CheckedRows ==
    {ConvertPlannedRow(PlannedRow(K0, 10000, "a")),
     ConvertPlannedRow(PlannedRow(K0, 15000, "a")),
     ConvertPlannedRow(PlannedRow(DifferIn(1), 10000, "b"))}

InitRowCheck ==
    /\ planned_matrix_df \in SeqsUpTo(CheckedRows, MaxChecked)
    /\ updated_planned_matrix \in SeqsUpTo(CheckedRows, MaxChecked)
    /\ planned_matrix_blob = to_csv(planned_matrix_df)
    /\ labor_category_blob = <<>>
    /\ labor_category_df = <<>>
    /\ response = NoResponse
    /\ uploaded = FALSE
    /\ FetchIdle

NextRowCheck == row_count_check

SpecRowCheck == InitRowCheck /\ [][NextRowCheck]_vars

\* ------------------------------------------- the rate texts of the sheet

\* Rate cells as a sheet kept by hand may hold them: a currency amount, a
\* word, an amount with a letter in it, the text nan behind a currency sign,
\* an empty cell.
SheetRateTexts ==
    {<<"$", "1", "5", "0">>,
     <<"T", "B", "D">>,
     <<"$", "1", "5", "O">>,
     <<"$", "n", "a", "n">>,
     NULLRATE}

SheetPlannedRows == {PlannedRow(K0, 10000, "a"), PlannedRow(DifferIn(1), 10000, "b")}

SheetLaborRows == {LaborRow(K0, t) : t \in SheetRateTexts}

InitRateText ==
    /\ planned_matrix_blob \in SeqsUpTo(SheetPlannedRows, MaxPlanned)
    /\ labor_category_blob \in SeqsUpTo(SheetLaborRows, MaxLabor)
    /\ planned_matrix_df = <<>>
    /\ labor_category_df = <<>>
    /\ updated_planned_matrix = <<>>
    /\ response = NoResponse
    /\ uploaded = FALSE
    /\ FetchIdle

SpecRateText == InitRateText /\ [][Next]_vars

\* ------------------------------------------------------------------ claims

\* The last invocation got as far as the reconciliation of lines 108 to 125.
Reconciled == response = UpdatedResponse \/ response.body = "Row count mismatch"

\* The rows of the sheet that dropna keeps, converted.
CompleteLabor == ConvertLabor(dropna(labor_category_blob))

\* The rates of the complete rows of key k.
CompleteRates(k) ==
    LET complete == CompleteLabor
    IN {complete[j].new_billRate :
           j \in {n \in 1..Len(complete) : KeyOf(complete[n]) = k}} \ {NaN}

Highest(rates) == CHOOSE m \in rates : \A r \in rates : r <= m

BillRates(df) == [i \in 1..Len(df) |-> df[i].billRate]

\* C1: the reconciled table has exactly as many rows as the baseline, whatever
\* the baseline (duplicate keys included) and the override table are.
C1_RowCountPreserved ==
    Reconciled => Len(updated_planned_matrix) = Len(planned_matrix_df)

C1_Witness ==
    /\ Reconciled
    /\ Len(planned_matrix_df) = 2
    /\ KeyOf(planned_matrix_df[1]) = KeyOf(planned_matrix_df[2])
    /\ Len(labor_category_blob) = 2
    /\ Len(labor_category_df) = 1
    /\ Len(updated_planned_matrix) = 2

C3_CollapseKeepsMaximumPerKey ==
    Reconciled =>
        /\ \A i, j \in 1..Len(labor_category_df) :
              i # j => KeyOf(labor_category_df[i]) # KeyOf(labor_category_df[j])
        /\ {KeyOf(labor_category_df[i]) : i \in 1..Len(labor_category_df)}
              = {KeyOf(CompleteLabor[j]) : j \in 1..Len(CompleteLabor)}
        /\ \A i \in 1..Len(labor_category_df) :
              LET rates == CompleteRates(KeyOf(labor_category_df[i]))
              IN rates # {} /\ labor_category_df[i].new_billRate = Highest(rates)

C3_Witness ==
    /\ Reconciled
    /\ Len(CompleteLabor) = 2
    /\ CompleteLabor[1].new_billRate = 10000
    /\ CompleteLabor[2].new_billRate = 15000
    /\ KeyOf(CompleteLabor[1]) = KeyOf(CompleteLabor[2])
    /\ Len(labor_category_df) = 1
    /\ labor_category_df[1].new_billRate = 15000

\* The equal rates of C3: two rows of one key and one rate collapse to it.
C3_WitnessTie ==
    /\ Reconciled
    /\ Len(CompleteLabor) = 2
    /\ CompleteLabor[1] = CompleteLabor[2]
    /\ Len(labor_category_df) = 1
    /\ labor_category_df[1].new_billRate = CompleteLabor[1].new_billRate

\* C4: a baseline row whose key differs in at least one field from the key of
\* every complete override row keeps its billRate.
C4_UnmatchedRowKeepsRate ==
    Reconciled =>
        /\ Len(updated_planned_matrix) = Len(planned_matrix_df)
        /\ \A i \in 1..Len(planned_matrix_df) :
              (\A j \in 1..Len(CompleteLabor) :
                  KeyOf(CompleteLabor[j]) # KeyOf(planned_matrix_df[i]))
              => updated_planned_matrix[i].billRate = planned_matrix_df[i].billRate

\* Only the end date differs between the baseline row and the override row.
C4_Witness ==
    /\ Reconciled
    /\ Len(planned_matrix_df) = 1
    /\ Len(CompleteLabor) >= 1
    /\ \A j \in 1..Len(CompleteLabor) :
          LET k == KeyOf(CompleteLabor[j])
              b == KeyOf(planned_matrix_df[1])
          IN k[1] = b[1] /\ k[2] = b[2] /\ k[3] = b[3] /\ k[4] = b[4] /\ k[5] # b[5]
    /\ updated_planned_matrix[1].billRate = 10000

\* C5: with no override row, or none left after the incomplete ones are
\* dropped, the output is the baseline row for row.
C5_NoOverridePassthrough ==
    (Reconciled /\ dropna(labor_category_blob) = <<>>)
        => updated_planned_matrix = planned_matrix_df

C5_Witness ==
    /\ response = UpdatedResponse
    /\ labor_category_blob # <<>>
    /\ dropna(labor_category_blob) = <<>>
    /\ Len(planned_matrix_df) = 2
    /\ planned_matrix_df[1] # planned_matrix_df[2]
    /\ updated_planned_matrix = planned_matrix_df

\* C6: output row i is baseline row i with every column but billRate as it
\* was: no row is dropped, duplicated or moved, whatever the overrides are.
C6_RowsStayInPlace ==
    Reconciled =>
        /\ Len(updated_planned_matrix) = Len(planned_matrix_df)
        /\ \A i \in 1..Len(planned_matrix_df) :
              [updated_planned_matrix[i] EXCEPT !.billRate = planned_matrix_df[i].billRate]
                 = planned_matrix_df[i]

\* The second of two rows is updated and the first is not.
C6_Witness ==
    /\ Reconciled
    /\ Len(planned_matrix_df) = 2
    /\ KeyOf(planned_matrix_df[1]) # KeyOf(planned_matrix_df[2])
    /\ updated_planned_matrix[1] = planned_matrix_df[1]
    /\ updated_planned_matrix[2].billRate # planned_matrix_df[2].billRate
    /\ updated_planned_matrix[2].passthrough = planned_matrix_df[2].passthrough

\* The collapsed override rows of the key of a baseline row.
Attached(row) ==
    {j \in 1..Len(labor_category_df) : KeyOf(labor_category_df[j]) = KeyOf(row)}

C8_IncompleteRowsHaveNoEffect ==
    Reconciled =>
        /\ \A i \in 1..Len(labor_category_df) :
              labor_category_df[i].new_billRate
                 \in CompleteRates(KeyOf(labor_category_df[i]))
        /\ Len(updated_planned_matrix) = Len(planned_matrix_df)
        /\ \A i \in 1..Len(planned_matrix_df) :
              updated_planned_matrix[i].billRate # planned_matrix_df[i].billRate
              => updated_planned_matrix[i].billRate
                    \in CompleteRates(KeyOf(planned_matrix_df[i]))

\* An override row without person.key beside a baseline row without one.
C8_Witness ==
    /\ Reconciled
    /\ Len(planned_matrix_df) = 1
    /\ planned_matrix_df[1].person_key = NA
    /\ Len(labor_category_blob) = 2
    /\ labor_category_blob[1].person_key = NULL
    /\ labor_category_blob[2].person_key # NULL
    /\ ~HasNull(labor_category_blob[2])
    /\ Len(labor_category_df) = 1
    /\ updated_planned_matrix = planned_matrix_df

\* An override row without a rate beside a complete one of the same key.
C8_WitnessRate ==
    /\ Reconciled
    /\ Len(labor_category_blob) = 2
    /\ labor_category_blob[1].new_billRate = NULLRATE
    /\ ~HasNull(labor_category_blob[2])
    /\ KeyOf(labor_category_blob[1]) = KeyOf(labor_category_blob[2])
    /\ Len(planned_matrix_df) = 1
    /\ updated_planned_matrix[1].billRate # planned_matrix_df[1].billRate

\* C9: an invocation that follows a successful one reconciles the output of
\* the first against the same overrides, and leaves every billRate as it is.
C9_Idempotent ==
    [][(response = UpdatedResponse /\ response' = UpdatedResponse)
          => /\ planned_matrix_df' = updated_planned_matrix
             /\ BillRates(updated_planned_matrix') = BillRates(updated_planned_matrix)]_vars

\* The second invocation has run on an output the first one changed: no
\* baseline read from the initial blob holds a billRate of 150.
C9_Witness ==
    /\ response = UpdatedResponse
    /\ Len(planned_matrix_df) = 2
    /\ planned_matrix_df = updated_planned_matrix
    /\ planned_matrix_df[1].billRate = 15000
    /\ planned_matrix_df[2].billRate = 10000

\* C10: when the row count of the joined table differs from the baseline's,
\* the response is the row count mismatch with both counts, and nothing is
\* written to storage.
C10_MismatchIsNeverWritten ==
    (response # NoResponse /\ Len(updated_planned_matrix) # Len(planned_matrix_df))
        => /\ response = MismatchResponse(Len(planned_matrix_df), Len(updated_planned_matrix))
           /\ response.status_code = 500
           /\ ~uploaded
           /\ planned_matrix_blob = to_csv(planned_matrix_df)

\* Two output rows from one baseline row.
C10_Witness ==
    /\ Len(planned_matrix_df) = 1
    /\ Len(updated_planned_matrix) = 2
    /\ response.body = "Row count mismatch"
    /\ response.Original = 1
    /\ response.Updated = 2

\* A character that is no digit and no decimal point.
NonNumeric(s) == \E i \in 1..Len(s) : s[i] \notin (DOMAIN Digit \cup {"."})

\* The retained override rows whose rate, with "$" and "," removed, still
\* holds a character that is not numeric.
ResidueRows ==
    {i \in 1..Len(dropna(labor_category_blob)) :
        NonNumeric(StripCurrency(dropna(labor_category_blob)[i].new_billRate))}

\* C11: when a retained override row's rate still holds a non-numeric
\* character after "$" and "," are removed, the invocation ends in the error
\* response and writes nothing.
C11_ResidueAborts ==
    (response # NoResponse /\ ResidueRows # {})
        => response = ErrorResponse /\ ~uploaded

\* The part of C11 the code keeps: a rate float() cannot read ends the
\* invocation in the error response, and the stored planned matrix stays.
C11_UnreadableRateAborts ==
    [][(\E i \in 1..Len(dropna(labor_category_blob)) :
            FloatRaises(StripCurrency(dropna(labor_category_blob)[i].new_billRate)))
          => /\ response' = ErrorResponse
             /\ ~uploaded'
             /\ planned_matrix_blob' = planned_matrix_blob]_vars

\* A word in the rate cell: the invocation has ended in the error response.
C11_WitnessUnreadable ==
    /\ response = ErrorResponse
    /\ Len(labor_category_blob) = 2
    /\ labor_category_blob[2].new_billRate = <<"T", "B", "D">>
    /\ labor_category_blob[1].new_billRate = <<"$", "1", "5", "0">>
    /\ planned_matrix_blob = <<PlannedRow(K0, 10000, "a")>>

\* A row of the stored planned matrix with an empty key cell.
KeyCellEmpty(r) ==
    \/ r.person_key = NULL
    \/ r.project_key = NULL
    \/ r.laborCategory_name = NULL
    \/ r.beginDate = NULL
    \/ r.endDate = NULL

\* No retained rate of the sheet is one float() cannot read.
RatesReadable ==
    \A i \in 1..Len(dropna(labor_category_blob)) :
        ~FloatRaises(StripCurrency(dropna(labor_category_blob)[i].new_billRate))

\* C12: a person.key or project.key that is not numeric or is missing, or a
\* beginDate or endDate that cannot be parsed, in either table, is no error:
\* with the blob service answering and the rates readable, the invocation
\* completes, writes its output, and a baseline row with an empty key cell
\* keeps its billRate.
C12_BadKeyIsNoError ==
    [][(UpdateRun /\ RatesReadable)
          => /\ response' = UpdatedResponse
             /\ uploaded'
             /\ Len(updated_planned_matrix') = Len(planned_matrix_blob)
             /\ \A i \in 1..Len(planned_matrix_blob) :
                   KeyCellEmpty(planned_matrix_blob[i])
                   => updated_planned_matrix'[i].billRate
                         = planned_matrix_blob[i].billRate]_vars

\* The part of C12 the code keeps: a missing key cell is no error.  With
\* every cell that is there readable, the invocation completes and a baseline
\* row with an empty key cell keeps its billRate.
C12_MissingKeyIsNoError ==
    [][(UpdateRun /\ ~LaborRaises(dropna(labor_category_blob))
                  /\ ~PlannedRaises(planned_matrix_blob))
          => /\ response' = UpdatedResponse
             /\ uploaded'
             /\ Len(updated_planned_matrix') = Len(planned_matrix_blob)
             /\ \A i \in 1..Len(planned_matrix_blob) :
                   KeyCellEmpty(planned_matrix_blob[i])
                   => updated_planned_matrix'[i].billRate
                         = planned_matrix_blob[i].billRate]_vars

\* A baseline row without person.key beside an override row without one and
\* a complete override row: the invocation has completed.
C12_WitnessMissing ==
    /\ response = UpdatedResponse
    /\ Len(planned_matrix_df) = 1
    /\ planned_matrix_df[1].person_key = NA
    /\ Len(labor_category_blob) = 2
    /\ labor_category_blob[1].person_key = NULL
    /\ ~HasNull(labor_category_blob[2])
    /\ updated_planned_matrix[1].billRate = 10000

\* ------------------------------------------------------ the fetch functions

\* The routes of the two fetch functions.
FetchInvoices == "unanetFetchInvoices"

FetchPlannedTime == "unanet-fetch-planned-time"

\* invoice_id = 1
start_invoice_id == 1

\* start_project_id = 2000
start_project_id == 2000

\* How many IDs from the start ID on may exist at Unanet.
MaxIds == 3

\* The highest threshold of consecutive misses: 100 and 200 in the code.
MaxThreshold == 2

\* What the blob holds before the fetch.
OldData == <<0>>

\* The answers Unanet may give to the GET of an invoice: the invoice when
\* it exists, a 404 when it does not, and a RequestException either way.
InvoiceOutcomes(id) == IF id \in upstream THEN {"hit", "error"} ELSE {"miss", "error"}

\* What fetch_planned_time may return: the data when the ID exists, None on
\* any RequestException (a 404 among them) or, with `if data`, empty data.
PlannedTimeOutcomes(id) == IF id \in upstream THEN {"hit", "miss"} ELSE {"miss"}

\* The condition of the while of fetch_all_invoices kept true one miss too long.
invoices_loop_continues_late(misses, threshold) == misses <= threshold

\* while consecutive_misses < max_consecutive_misses
invoices_loop_continues(misses, threshold) == misses < threshold

\* while failure_count < max_failures
planned_time_loop_continues(failures, threshold) == failures < threshold

\* The increment of line 65 forgotten: a missing invoice is asked for again.
next_invoice_id_stuck(outcome, id) == IF outcome = "miss" THEN id ELSE id + 1

\* invoice_id += 1, after a 404 and after an invoice.
next_invoice_id(outcome, id) == id + 1

\* project_id += 1
next_project_id(outcome, id) == id + 1

\* The exception raised again in place of the break.
raise_on_request_exception == FALSE

\* except requests.exceptions.RequestException: break
break_on_request_exception == TRUE

FetchOk == [status_code |-> 200, body |-> "fetched and uploaded successfully"]

FetchError(e) == [status_code |-> 500, body |-> e]

\* A fetch handler returns.
Return(resp) == fetch_response' = resp /\ fetch_pc' = "done"

\* upload_to_azure_blob(csv_data, blob_name): the blob is overwritten, or the
\* blob service fails and the exception reaches the handler.
Upload(data) ==
    /\ upload_calls' = Append(upload_calls, data)
    /\ \/ fetch_blob' = data /\ Return(FetchOk)
       \/ fetch_blob' = fetch_blob /\ Return(FetchError("upload"))

\* get_unanet_token succeeds and fetch_all_invoices sets its locals.
invoices_token ==
    /\ request = FetchInvoices
    /\ fetch_pc = "token"
    /\ fetch_pc' = "loop"
    /\ invoice_id' = start_invoice_id
    /\ invoices' = <<>>
    /\ consecutive_misses' = 0
    /\ UNCHANGED <<request, upstream, probes, fetch_response, fetch_blob, upload_calls,
                   max_consecutive_misses, project_id, planned_time_data,
                   failure_count, max_failures>>
    /\ UNCHANGED billVars

\* get_unanet_token raises: the handler answers 500.
token_fails ==
    /\ fetch_pc = "token"
    /\ Return(FetchError("token"))
    /\ UNCHANGED <<request, upstream, probes, fetch_blob, upload_calls, invoice_id,
                   invoices, consecutive_misses, max_consecutive_misses, project_id,
                   planned_time_data, failure_count, max_failures>>
    /\ UNCHANGED billVars

\* One turn of the while of fetch_all_invoices, or its end.
fetch_all_invoices ==
    /\ request = FetchInvoices
    /\ fetch_pc = "loop"
    /\ IF invoices_loop_continues(consecutive_misses, max_consecutive_misses)
       THEN \E outcome \in InvoiceOutcomes(invoice_id) :
               /\ probes' = Append(probes, [id |-> invoice_id, outcome |-> outcome])
               /\ CASE outcome = "miss" ->
                         /\ consecutive_misses' = consecutive_misses + 1
                         /\ invoice_id' = next_invoice_id(outcome, invoice_id)
                         /\ UNCHANGED <<invoices, fetch_pc, fetch_response>>
                    [] outcome = "hit" ->
                         /\ invoices' = Append(invoices, invoice_id)
                         /\ invoice_id' = next_invoice_id(outcome, invoice_id)
                         /\ consecutive_misses' = 0
                         /\ UNCHANGED <<fetch_pc, fetch_response>>
                    [] outcome = "error" ->
                         /\ IF break_on_request_exception
                            THEN fetch_pc' = "upload" /\ UNCHANGED fetch_response
                            ELSE Return(FetchError("fetch"))
                         /\ UNCHANGED <<invoices, invoice_id, consecutive_misses>>
       ELSE /\ fetch_pc' = "upload"
            /\ UNCHANGED <<probes, invoices, invoice_id, consecutive_misses,
                           fetch_response>>
    /\ UNCHANGED <<request, upstream, fetch_blob, upload_calls, max_consecutive_misses,
                   project_id, planned_time_data, failure_count, max_failures>>
    /\ UNCHANGED billVars

\* transform_data and upload_to_azure_blob of unanet_fetch_invoices.
upload_invoices ==
    /\ request = FetchInvoices
    /\ fetch_pc = "upload"
    /\ Upload(invoices)
    /\ UNCHANGED <<request, upstream, probes, invoice_id, invoices, consecutive_misses,
                   max_consecutive_misses, project_id, planned_time_data,
                   failure_count, max_failures>>
    /\ UNCHANGED billVars

\* get_unanet_token succeeds and unanet_fetch_planned_time sets its locals.
planned_time_token ==
    /\ request = FetchPlannedTime
    /\ fetch_pc = "token"
    /\ fetch_pc' = "loop"
    /\ project_id' = start_project_id
    /\ planned_time_data' = <<>>
    /\ failure_count' = 0
    /\ UNCHANGED <<request, upstream, probes, fetch_response, fetch_blob, upload_calls,
                   invoice_id, invoices, consecutive_misses, max_consecutive_misses,
                   max_failures>>
    /\ UNCHANGED billVars

\* One turn of the while of unanet_fetch_planned_time, or its end: with no
\* data the upload is left out and the answer is 200.
fetch_planned_time ==
    /\ request = FetchPlannedTime
    /\ fetch_pc = "loop"
    /\ IF planned_time_loop_continues(failure_count, max_failures)
       THEN \E outcome \in PlannedTimeOutcomes(project_id) :
               /\ probes' = Append(probes, [id |-> project_id, outcome |-> outcome])
               /\ IF outcome = "hit"
                  THEN /\ planned_time_data' = Append(planned_time_data, project_id)
                       /\ failure_count' = 0
                  ELSE /\ failure_count' = failure_count + 1
                       /\ UNCHANGED planned_time_data
               /\ project_id' = next_project_id(outcome, project_id)
               /\ UNCHANGED <<fetch_pc, fetch_response>>
       ELSE /\ IF planned_time_data # <<>>
               THEN fetch_pc' = "upload" /\ UNCHANGED fetch_response
               ELSE Return(FetchOk)
            /\ UNCHANGED <<probes, planned_time_data, failure_count, project_id>>
    /\ UNCHANGED <<request, upstream, fetch_blob, upload_calls, invoice_id, invoices,
                   consecutive_misses, max_consecutive_misses, max_failures>>
    /\ UNCHANGED billVars

\* upload_to_azure_blob of unanet_fetch_planned_time.
upload_planned_time ==
    /\ request = FetchPlannedTime
    /\ fetch_pc = "upload"
    /\ Upload(planned_time_data)
    /\ UNCHANGED <<request, upstream, probes, invoice_id, invoices, consecutive_misses,
                   max_consecutive_misses, project_id, planned_time_data,
                   failure_count, max_failures>>
    /\ UNCHANGED billVars

\* No update-bill-rate request is being served.
BillIdle ==
    /\ planned_matrix_blob = <<>>
    /\ labor_category_blob = <<>>
    /\ planned_matrix_df = <<>>
    /\ labor_category_df = <<>>
    /\ updated_planned_matrix = <<>>
    /\ response = NoResponse
    /\ uploaded = FALSE

\* The start ID of the loop of a route.
StartIdOf(route) == IF route = FetchInvoices THEN start_invoice_id ELSE start_project_id

\* A fetch request arrives: some of the first IDs exist at Unanet.
InitFetch ==
    /\ BillIdle
    /\ request \in {FetchInvoices, FetchPlannedTime}
    /\ upstream \in SUBSET (StartIdOf(request)..(StartIdOf(request) + MaxIds - 1))
    /\ fetch_pc = "token"
    /\ probes = <<>>
    /\ fetch_response = [status_code |-> 0, body |-> "none"]
    /\ fetch_blob = OldData
    /\ upload_calls = <<>>
    /\ invoice_id = 0
    /\ invoices = <<>>
    /\ consecutive_misses = 0
    /\ project_id = 0
    /\ planned_time_data = <<>>
    /\ failure_count = 0
    /\ \E threshold \in 1..MaxThreshold :
          /\ max_consecutive_misses = (IF request = FetchInvoices THEN threshold ELSE 0)
          /\ max_failures = (IF request = FetchPlannedTime THEN threshold ELSE 0)

NextFetch ==
    \/ invoices_token
    \/ planned_time_token
    \/ token_fails
    \/ fetch_all_invoices
    \/ upload_invoices
    \/ fetch_planned_time
    \/ upload_planned_time

\* The handler runs to its return: nothing in it waits.
SpecFetch == InitFetch /\ [][NextFetch]_vars /\ WF_vars(NextFetch)

\* ------------------------------------------------------ the fetch loops

\* The loop of the request has set its locals.
LoopStarted == fetch_pc \in {"loop", "upload", "done"} /\ fetch_response # FetchError("token")

\* The loop of the request has been left.
LoopOver == fetch_pc \in {"upload", "done"} /\ fetch_response # FetchError("token")

\* The locals of the loop of the request.
Counter == IF request = FetchInvoices THEN consecutive_misses ELSE failure_count

Threshold == IF request = FetchInvoices THEN max_consecutive_misses ELSE max_failures

NextId == IF request = FetchInvoices THEN invoice_id ELSE project_id

Collected == IF request = FetchInvoices THEN invoices ELSE planned_time_data

\* The IDs that were hits among the probes p, in the order of the probes.
HitProbes(p) == SelectSeq(p, LAMBDA probe : probe.outcome = "hit")

Hits(p) == [i \in 1..Len(HitProbes(p)) |-> HitProbes(p)[i].id]

\* The last n probes exist and were all misses.
LastAreMisses(p, n) ==
    /\ Len(p) >= n
    /\ \A i \in (Len(p) - n + 1)..Len(p) : p[i].outcome = "miss"

\* A probe is made in this step.
Probing == Len(probes') = Len(probes) + 1

LastProbe == probes[Len(probes)]

\* C13: the miss counter of a fetch loop goes up by one on each miss and back
\* to 0 on each hit, it stays between 0 and the threshold, the loop is left
\* in the end, and it is left with the counter at the threshold exactly when
\* the last `threshold` probes were all misses.
C13_MissCounter ==
    /\ [](0 <= Counter /\ Counter <= Threshold)
    /\ [][Probing =>
            LET outcome == probes'[Len(probes')].outcome
            IN  /\ outcome = "miss" => Counter' = Counter + 1
                /\ outcome = "hit" => Counter' = 0]_vars
    /\ <>(fetch_pc = "done")
    /\ [](LoopStarted => (fetch_pc = "loop" \/ LoopOver))
    /\ [](LoopOver => (Counter = Threshold <=> LastAreMisses(probes, Threshold)))
    /\ [](LoopOver /\ request = FetchPlannedTime => Counter = Threshold)
    /\ [](LoopOver /\ request = FetchInvoices
            => (Counter = Threshold \/ LastProbe.outcome = "error"))

\* A loop left by its threshold of 2 after a hit, a single miss, a hit and
\* two misses.
C13_Witness ==
    /\ LoopOver
    /\ Threshold = 2
    /\ Counter = Threshold
    /\ Len(probes) = 5
    /\ probes[2].outcome = "miss"
    /\ probes[3].outcome = "hit"

\* The last probe of fetch_all_invoices met a RequestException.
FetchFailed == request = FetchInvoices /\ probes # <<>> /\ LastProbe.outcome = "error"

\* C14: a RequestException in fetch_all_invoices ends the loop at once and
\* is not raised; the invoices collected until then are what the handler
\* uploads, the upload is never left out, and unless the upload itself fails
\* the blob is overwritten with them and the answer is 200.
C14_FetchErrorIsSwallowed ==
    /\ request = FetchInvoices
          => \A i \in 1..Len(probes) : probes[i].outcome = "error" => i = Len(probes)
    /\ FetchFailed
          => /\ fetch_pc \in {"upload", "done"}
             /\ invoices = Hits(probes)
             /\ fetch_response # FetchError("fetch")
             /\ fetch_pc = "upload" => upload_calls = <<>>
             /\ fetch_pc = "done"
                   => /\ upload_calls = <<invoices>>
                      /\ \/ fetch_response = FetchOk /\ fetch_blob = invoices
                         \/ fetch_response = FetchError("upload") /\ fetch_blob = OldData

\* An invoice that exists was never asked for after the error, and the
\* shortened list has replaced the blob with a 200.
C14_Witness ==
    /\ FetchFailed
    /\ fetch_pc = "done"
    /\ fetch_response = FetchOk
    /\ invoices # <<>>
    /\ fetch_blob = invoices
    /\ \E id \in upstream : \A i \in 1..Len(invoices) : invoices[i] # id

\* C15: the probes of a fetch loop are the IDs from the start ID on, one
\* after the other, each once, and the collected list is the hits among
\* them in that order.
C15_AscendingProbes ==
    LoopStarted
        => /\ \A i \in 1..Len(probes) : probes[i].id = StartIdOf(request) + i - 1
           /\ fetch_pc = "loop" => NextId = StartIdOf(request) + Len(probes)
           /\ Collected = Hits(probes)
           /\ \A i, j \in 1..Len(Collected) : i < j => Collected[i] < Collected[j]

\* Invoices 1 and 3 collected around the missing invoice 2, and a fourth
\* probe made.
C15_Witness ==
    /\ request = FetchInvoices
    /\ Len(probes) >= 4
    /\ invoices = <<1, 3>>
    /\ probes[2].outcome = "miss"

\* Planned time of projects 2000 and 2002 collected around 2001.
C15_WitnessPlannedTime ==
    /\ request = FetchPlannedTime
    /\ Len(probes) >= 4
    /\ planned_time_data = <<2000, 2002>>
====
